---- MODULE Spec2Model ----
(***************************************************************************)
(* SqlHelper (src/src/index.ts): a static facade over the mssql driver.    *)
(* The module state is the two static fields of the class (config and      *)
(* poolPromise), the ConnectionPool objects the class constructs, the      *)
(* asynchronous calls in flight (one per caller, suspended at an await),   *)
(* and the console.error records written.  The driver and the database are *)
(* the environment: a connect or a request settles with any outcome.       *)
(***************************************************************************)
EXTENDS Integers, Sequences, FiniteSets, TLC

VARIABLES
    config,       \* SqlHelper.config: <<>> is null, <<cfg>> a configuration
    poolPromise,  \* SqlHelper.poolPromise: 0 is null, p the promise of pool p
    pools,        \* every ConnectionPool object constructed so far
    pc,           \* where each caller's current call is suspended
    op,           \* the call each caller made last (function and arguments)
    awaited,      \* the pool whose promise the caller awaits or obtained
    req,          \* the Request built by the caller's current call
    conn,         \* the private pool a getConnection call is connecting
    ret,          \* how the caller's last call settled
    callLog,      \* console.error records written by the caller's current call
    callConnects, \* shared connects started by the caller's current call
    callExecs     \* statements sent to the driver by the caller's current call

vars == <<config, poolPromise, pools, pc, op, awaited, req, conn, ret,
          callLog, callConnects, callExecs>>

----------------------------------------------------------------------------
(* Bounds of the model *)

NumCallers == 2
MaxAttempts == 2
MaxParams == 2

Callers == 1..NumCallers
PoolIds == 1..MaxAttempts

----------------------------------------------------------------------------
(* JavaScript values, as far as the code distinguishes them *)

Undefined == "undefined"
Null == "null"

\* the values of a row field or of a return code
Values == {"0", "7", "false", "''"}

\* a || b takes b exactly when a is one of the falsy values
Falsy == {Undefined, Null, "0", "false", "''", "NaN"}

Truthy(v) == v \notin Falsy

Or(a, b) == IF Truthy(a) THEN a ELSE b

EmptyObj == [k \in {} |-> Undefined]

\* {...a, ...b}: the keys of both, b's value where both have the key
Spread(a, b) ==
    [k \in (DOMAIN a) \cup (DOMAIN b) |-> IF k \in DOMAIN b THEN b[k] ELSE a[k]]

\* obj?.[k]: undefined when the object is undefined or has no such key
Field(obj, k) == IF k \in DOMAIN obj THEN obj[k] ELSE Undefined

----------------------------------------------------------------------------
(* Errors *)

NoError == [name |-> "", code |-> ""]
TypeError == [name |-> "TypeError", code |-> ""]
ConnectErrors == {[name |-> "ConnectionError", code |-> "ESOCKET"],
                  [name |-> "ConnectionError", code |-> "ELOGIN"]}
RequestErrors == {[name |-> "RequestError", code |-> "EREQUEST"]}

----------------------------------------------------------------------------
(* Configuration: initialize and initializeFromEnv *)

DefaultOptions ==
    [trustServerCertificate |-> "true", trustedConnection |-> "true",
     enableArithAbort |-> "true"]

DefaultPool == [max |-> 60, min |-> 5, idleTimeoutMillis |-> 60000]

\* the value initialize stores: the caller's fields, defaults backfilled
MergedConfig(cfg) ==
    [user |-> cfg.user, password |-> cfg.password, server |-> cfg.server,
     database |-> cfg.database,
     options |-> Spread(DefaultOptions, cfg.options),
     pool |-> Spread(DefaultPool, cfg.pool)]

\* process.env.k || ""
EnvOr(env, k) == Or(Field(env, k), "''")

EnvConfig(env) ==
    [user |-> EnvOr(env, "db_user"), password |-> EnvOr(env, "db_password"),
     server |-> EnvOr(env, "server"), database |-> EnvOr(env, "database"),
     options |-> EmptyObj, pool |-> EmptyObj]

\* a variant that drops the cached pool whenever the configuration is set
InitializeResetsPool(cfg) ==
    /\ config' = <<MergedConfig(cfg)>>
    /\ poolPromise' = 0
    /\ UNCHANGED <<pools, pc, op, awaited, req, conn, ret,
                   callLog, callConnects, callExecs>>

Initialize(cfg) ==
    /\ config' = <<MergedConfig(cfg)>>
    /\ UNCHANGED <<poolPromise, pools, pc, op, awaited, req, conn, ret,
                   callLog, callConnects, callExecs>>

InitializeFromEnv(env) == Initialize(EnvConfig(env))

----------------------------------------------------------------------------
(* The ConnectionPool objects getPool constructs *)

UnusedPool ==
    [state |-> "unused", config |-> <<>>,
     thrown |-> NoError, reason |-> NoError, log |-> <<>>]

\* new sql.ConnectionPool(SqlHelper.config!).connect(): the pool is connecting
NewPool ==
    [state |-> "connecting", config |-> config,
     thrown |-> NoError, reason |-> NoError, log |-> <<>>]

Constructed == {p \in PoolIds : pools[p].state # "unused"}

FreshPool == Cardinality(Constructed) + 1

\* SqlHelper.config! asserts nothing at run time: with no configuration the
\* driver's constructor receives null, and either throws a TypeError or builds
\* a pool whose connect is then attempted (and can only be rejected).
CtorThrows == IF config = <<>> THEN BOOLEAN ELSE {FALSE}

\* the driver settles connect(): the promise of connect() resolves ...
ConnectResolves(p) ==
    /\ pools[p].state = "connecting"
    /\ pools[p].config # <<>>
    /\ pools' = [pools EXCEPT ![p].state = "connected"]
    /\ UNCHANGED <<config, poolPromise, pc, op, awaited, req, conn, ret,
                   callLog, callConnects, callExecs>>

\* ... or rejects with a driver error
ConnectRejects(p, e) ==
    /\ pools[p].state = "connecting"
    /\ pools' = [pools EXCEPT ![p].state = "rejected", ![p].thrown = e]
    /\ UNCHANGED <<config, poolPromise, pc, op, awaited, req, conn, ret,
                   callLog, callConnects, callExecs>>

\* .then(pool => pool): the shared promise resolves with the pool
ThenHandler(p) ==
    /\ pools[p].state = "connected"
    /\ pools' = [pools EXCEPT ![p].state = "ready"]
    /\ UNCHANGED <<config, poolPromise, pc, op, awaited, req, conn, ret,
                   callLog, callConnects, callExecs>>

ConnectionFailed(e) == [msg |-> "Database connection failed", err |-> e]

\* a variant that logs and rethrows but leaves the rejected promise cached
CatchHandlerKeepsPromise(p) ==
    /\ pools[p].state = "rejected"
    /\ pools' = [pools EXCEPT
                    ![p].state = "failed",
                    ![p].log = Append(@, ConnectionFailed(pools[p].thrown)),
                    ![p].reason = pools[p].thrown]
    /\ UNCHANGED <<config, poolPromise, pc, op, awaited, req, conn, ret,
                   callLog, callConnects, callExecs>>

\* .catch(err => { console.error(...); poolPromise = null; throw err })
CatchHandler(p) ==
    /\ pools[p].state = "rejected"
    /\ pools' = [pools EXCEPT
                    ![p].state = "failed",
                    ![p].log = Append(@, ConnectionFailed(pools[p].thrown)),
                    ![p].reason = pools[p].thrown]
    /\ poolPromise' = 0
    /\ UNCHANGED <<config, pc, op, awaited, req, conn, ret,
                   callLog, callConnects, callExecs>>

----------------------------------------------------------------------------
(* Calls: arguments, requests, results *)

PooledFns == {"executeQuery", "executeScalar", "executeInsert",
              "executeWithReturnValue"}

\* "; SELECT SCOPE_IDENTITY() AS " of executeInsert's template string
IdentityClause == "; SELECT SCOPE_IDENTITY() AS "

NoResult == [recordset |-> <<>>, returnValue |-> Undefined]

NoRequest ==
    [state |-> "none", pool |-> 0, inputs |-> <<>>, method |-> "",
     command |-> <<>>, result |-> NoResult, error |-> NoError]

NoConnection == [state |-> "none", config |-> <<>>]

NoOp ==
    [fn |-> "", commandType |-> "", query |-> <<>>, parameters |-> <<>>,
     identityColumnName |-> ""]

RetNone ==
    [status |-> "none", error |-> NoError, value |-> Undefined,
     result |-> NoResult, pool |-> 0]

RetPending == [RetNone EXCEPT !.status = "pending"]

RetError(e) == [RetNone EXCEPT !.status = "err", !.error = e]

QueryError(e) == [msg |-> "Query execution error:", err |-> e]

ConnectionError(e) == [msg |-> "Database connection error:", err |-> e]

\* request.input(name, type, value) when the parameter names a type,
\* request.input(name, value) otherwise
Input(name, param) ==
    IF Truthy(param.type)
    THEN [name |-> name, arity |-> 3, type |-> param.type, value |-> param.value]
    ELSE [name |-> name, arity |-> 2, type |-> Undefined, value |-> param.value]

\* executeQuery: every name as given; an absent list (<<>>) binds nothing
BindVerbatim(parameters) ==
    IF parameters = <<>> THEN <<>>
    ELSE [i \in 1..Len(parameters[1]) |->
             Input(parameters[1][i].name, parameters[1][i])]

\* a variant that binds the name as given
ParamNameAsGiven(name) == name

\* param.name.startsWith('@') ? param.name.substring(1) : param.name
ParamName(name) ==
    IF Len(name) > 0 /\ name[1] = "@" THEN Tail(name) ELSE name

\* executeWithReturnValue: parameters defaults to [] when absent
BindStripped(parameters) ==
    LET list == IF parameters = <<>> THEN <<>> ELSE parameters[1]
    IN  [i \in 1..Len(list) |-> Input(ParamName(list[i].name), list[i])]

\* a variant that appends the identity clause whatever the command type
ModifiedQueryAlways(o) == o.query \o <<IdentityClause, o.identityColumnName>>

\* executeInsert's modifiedQuery
ModifiedQuery(o) ==
    IF o.commandType = "Text"
    THEN o.query \o <<IdentityClause, o.identityColumnName>>
    ELSE o.query

\* the text the call hands to executeQuery or to request.execute
Command(o) == IF o.fn = "executeInsert" THEN ModifiedQuery(o) ELSE o.query

\* request.execute(query) for a stored procedure, request.query(query) for text
Method(o) ==
    IF o.fn = "executeWithReturnValue" THEN "execute"
    ELSE IF o.commandType = "StoredProcedure" THEN "execute" ELSE "query"

Inputs(o) ==
    IF o.fn = "executeWithReturnValue" THEN BindStripped(o.parameters)
    ELSE BindVerbatim(o.parameters)

\* result.recordset?.[0]?.[k]
FirstRowField(result, k) ==
    IF result.recordset = <<>> THEN Undefined
    ELSE IF Len(result.recordset[1]) = 0 THEN Undefined
    ELSE Field(result.recordset[1][1], k)

\* executeScalar: result.recordset?.[0]?.value || null
Scalar(result) == Or(FirstRowField(result, "value"), Null)

\* executeInsert: result.recordset?.[0]?.[identityColumnName] || 0
Identity(result, identityColumnName) ==
    Or(FirstRowField(result, identityColumnName), "0")

\* executeWithReturnValue: result.returnValue || 0
ReturnValue(result) == Or(result.returnValue, "0")

\* what the call resolves with, given the driver's result
Shaped(o, result) ==
    CASE o.fn = "executeQuery" -> [RetNone EXCEPT !.status = "ok", !.result = result]
      [] o.fn = "executeScalar" ->
            [RetNone EXCEPT !.status = "ok", !.value = Scalar(result)]
      [] o.fn = "executeInsert" ->
            [RetNone EXCEPT !.status = "ok",
                            !.value = Identity(result, o.identityColumnName)]
      [] o.fn = "executeWithReturnValue" ->
            [RetNone EXCEPT !.status = "ok", !.value = ReturnValue(result)]

----------------------------------------------------------------------------
(* The state after the class is loaded: nothing configured, no pool *)

Init ==
    /\ config = <<>>
    /\ poolPromise = 0
    /\ pools = [p \in PoolIds |-> UnusedPool]
    /\ pc = [c \in Callers |-> "idle"]
    /\ op = [c \in Callers |-> NoOp]
    /\ awaited = [c \in Callers |-> 0]
    /\ req = [c \in Callers |-> NoRequest]
    /\ conn = [c \in Callers |-> NoConnection]
    /\ ret = [c \in Callers |-> RetNone]
    /\ callLog = [c \in Callers |-> <<>>]
    /\ callConnects = [c \in Callers |-> 0]
    /\ callExecs = [c \in Callers |-> 0]

----------------------------------------------------------------------------
(* getPool and the calls that await it *)

\* a variant that tests for a connected pool instead of a cached promise
NoReadyPool == poolPromise = 0 \/ pools[poolPromise].state # "ready"

\* a variant that connects on every call
AlwaysConnect == TRUE

\* if (!SqlHelper.poolPromise): a connect is started only when none is cached
NoPoolPromise == poolPromise = 0

\* the caller enters executeQuery or executeWithReturnValue and runs to
\* `await SqlHelper.getPool()`; getPool runs synchronously inside the try
Call(c, o) ==
    /\ pc[c] = "idle"
    /\ o.fn \in PooledFns
    /\ op' = [op EXCEPT ![c] = o]
    /\ req' = [req EXCEPT ![c] = NoRequest]
    /\ callExecs' = [callExecs EXCEPT ![c] = 0]
    /\ conn' = [conn EXCEPT ![c] = NoConnection]
    /\ UNCHANGED config
    /\ IF NoPoolPromise
       THEN \/ \* the constructor throws inside the try: logged, rethrown
               /\ TRUE \in CtorThrows
               /\ callLog' = [callLog EXCEPT ![c] = <<QueryError(TypeError)>>]
               /\ ret' = [ret EXCEPT ![c] = RetError(TypeError)]
               /\ callConnects' = [callConnects EXCEPT ![c] = 0]
               /\ awaited' = [awaited EXCEPT ![c] = 0]
               /\ UNCHANGED <<poolPromise, pools, pc>>
            \/ \* a pool is constructed, its connect started and cached
               /\ FALSE \in CtorThrows
               /\ FreshPool \in PoolIds
               /\ pools' = [pools EXCEPT ![FreshPool] = NewPool]
               /\ poolPromise' = FreshPool
               /\ awaited' = [awaited EXCEPT ![c] = FreshPool]
               /\ callConnects' = [callConnects EXCEPT ![c] = 1]
               /\ callLog' = [callLog EXCEPT ![c] = <<>>]
               /\ ret' = [ret EXCEPT ![c] = RetPending]
               /\ pc' = [pc EXCEPT ![c] = "awaitPool"]
       ELSE /\ awaited' = [awaited EXCEPT ![c] = poolPromise]
            /\ callConnects' = [callConnects EXCEPT ![c] = 0]
            /\ callLog' = [callLog EXCEPT ![c] = <<>>]
            /\ ret' = [ret EXCEPT ![c] = RetPending]
            /\ pc' = [pc EXCEPT ![c] = "awaitPool"]
            /\ UNCHANGED <<poolPromise, pools>>

\* the awaited promise resolved: build the request, bind, send the statement
PoolAcquired(c) ==
    /\ pc[c] = "awaitPool"
    /\ pools[awaited[c]].state = "ready"
    /\ req' = [req EXCEPT ![c] =
                  [NoRequest EXCEPT !.state = "pending", !.pool = awaited[c],
                                    !.inputs = Inputs(op[c]),
                                    !.method = Method(op[c]),
                                    !.command = Command(op[c])]]
    /\ callExecs' = [callExecs EXCEPT ![c] = @ + 1]
    /\ pc' = [pc EXCEPT ![c] = "awaitExec"]
    /\ UNCHANGED <<config, poolPromise, pools, op, awaited, conn, ret,
                   callLog, callConnects>>

\* a variant whose catch throws a new error in place of the one it caught
PoolFailedWraps(c) ==
    /\ pc[c] = "awaitPool"
    /\ pools[awaited[c]].state = "failed"
    /\ callLog' = [callLog EXCEPT
                      ![c] = Append(@, QueryError(pools[awaited[c]].reason))]
    /\ ret' = [ret EXCEPT ![c] = RetError([name |-> "Error", code |-> "EQUERY"])]
    /\ pc' = [pc EXCEPT ![c] = "idle"]
    /\ UNCHANGED <<config, poolPromise, pools, op, awaited, req, conn,
                   callConnects, callExecs>>

\* the awaited promise rejected: the call's catch logs and rethrows
PoolFailed(c) ==
    /\ pc[c] = "awaitPool"
    /\ pools[awaited[c]].state = "failed"
    /\ callLog' = [callLog EXCEPT
                      ![c] = Append(@, QueryError(pools[awaited[c]].reason))]
    /\ ret' = [ret EXCEPT ![c] = RetError(pools[awaited[c]].reason)]
    /\ pc' = [pc EXCEPT ![c] = "idle"]
    /\ UNCHANGED <<config, poolPromise, pools, op, awaited, req, conn,
                   callConnects, callExecs>>

\* the driver resolves the request: the call resumes with the result and
\* returns its projection
ExecReturns(c, result) ==
    /\ pc[c] = "awaitExec"
    /\ req[c].state = "pending"
    /\ req' = [req EXCEPT ![c].state = "resolved", ![c].result = result]
    /\ ret' = [ret EXCEPT ![c] = Shaped(op[c], result)]
    /\ pc' = [pc EXCEPT ![c] = "idle"]
    /\ UNCHANGED <<config, poolPromise, pools, op, awaited, conn,
                   callLog, callConnects, callExecs>>

\* the driver rejects the request: the call resumes in its catch, logs and
\* rethrows
ExecThrows(c, e) ==
    /\ pc[c] = "awaitExec"
    /\ req[c].state = "pending"
    /\ req' = [req EXCEPT ![c].state = "rejected", ![c].error = e]
    /\ callLog' = [callLog EXCEPT ![c] = Append(@, QueryError(e))]
    /\ ret' = [ret EXCEPT ![c] = RetError(e)]
    /\ pc' = [pc EXCEPT ![c] = "idle"]
    /\ UNCHANGED <<config, poolPromise, pools, op, awaited, conn,
                   callConnects, callExecs>>

----------------------------------------------------------------------------
(* getConnection: a private pool per call, never cached *)

GetConnectionOp == [NoOp EXCEPT !.fn = "getConnection"]

\* the private pool of caller c, told apart from every shared pool
PrivatePool(c) == 0 - c

GetConnection(c) ==
    /\ pc[c] = "idle"
    /\ op' = [op EXCEPT ![c] = GetConnectionOp]
    /\ req' = [req EXCEPT ![c] = NoRequest]
    /\ callExecs' = [callExecs EXCEPT ![c] = 0]
    /\ callConnects' = [callConnects EXCEPT ![c] = 0]
    /\ awaited' = [awaited EXCEPT ![c] = 0]
    /\ UNCHANGED <<config, poolPromise, pools>>
    /\ \/ \* the constructor throws inside the try: logged, rethrown
          /\ TRUE \in CtorThrows
          /\ callLog' = [callLog EXCEPT ![c] = <<ConnectionError(TypeError)>>]
          /\ ret' = [ret EXCEPT ![c] = RetError(TypeError)]
          /\ conn' = [conn EXCEPT ![c] = NoConnection]
          /\ UNCHANGED pc
       \/ \* a private pool is constructed and its connect awaited
          /\ FALSE \in CtorThrows
          /\ conn' = [conn EXCEPT ![c] =
                         [NoConnection EXCEPT !.state = "connecting",
                                              !.config = config]]
          /\ callLog' = [callLog EXCEPT ![c] = <<>>]
          /\ ret' = [ret EXCEPT ![c] = RetPending]
          /\ pc' = [pc EXCEPT ![c] = "awaitConnect"]

\* the private connect() resolves: the call returns the connected pool
ConnectionReturns(c) ==
    /\ pc[c] = "awaitConnect"
    /\ conn[c].state = "connecting"
    /\ conn[c].config # <<>>
    /\ conn' = [conn EXCEPT ![c] = NoConnection]
    /\ ret' = [ret EXCEPT ![c] = [RetNone EXCEPT !.status = "ok",
                                                 !.pool = PrivatePool(c)]]
    /\ pc' = [pc EXCEPT ![c] = "idle"]
    /\ UNCHANGED <<config, poolPromise, pools, op, awaited, req,
                   callLog, callConnects, callExecs>>

\* the private connect() rejects: the call's catch logs and rethrows
ConnectionThrows(c, e) ==
    /\ pc[c] = "awaitConnect"
    /\ conn[c].state = "connecting"
    /\ conn' = [conn EXCEPT ![c] = NoConnection]
    /\ callLog' = [callLog EXCEPT ![c] = Append(@, ConnectionError(e))]
    /\ ret' = [ret EXCEPT ![c] = RetError(e)]
    /\ pc' = [pc EXCEPT ![c] = "idle"]
    /\ UNCHANGED <<config, poolPromise, pools, op, awaited, req,
                   callConnects, callExecs>>

----------------------------------------------------------------------------
(* Inputs *)

ConfigA ==
    [user |-> "sa", password |-> "pw", server |-> "db1", database |-> "app",
     options |-> EmptyObj, pool |-> EmptyObj]

ConfigB ==
    [user |-> "sa", password |-> "pw", server |-> "db2", database |-> "app",
     options |-> [trustedConnection |-> "false"], pool |-> [max |-> 10]]

\* parameter names, as sequences of characters
Names == {<<"p">>, <<"@", "p">>, <<"@", "@", "p">>}

Params == [name : Names, type : {Undefined, "Int"}, value : {"1"}]

ParamLists == UNION {[1..n -> Params] : n \in 0..MaxParams}

\* the optional parameters argument: absent, or a list
ParameterArgs(lists) == {<<>>} \cup {<<l>> : l \in lists}

\* query texts, as sequences of fragments
Queries == {<<"usp_Add">>,
            <<"INSERT INTO T DEFAULT VALUES">>,
            <<"INSERT INTO T DEFAULT VALUES", IdentityClause, "Id">>}

CommandTypes == {"Text", "StoredProcedure"}

IdentityColumns == {"Id", "RowId"}

OpsOf(fns, queries, lists) ==
    {[fn |-> f, commandType |-> t, query |-> q, parameters |-> ps,
      identityColumnName |-> ""] :
        f \in fns \cap {"executeQuery", "executeScalar"}, t \in CommandTypes,
        q \in queries, ps \in ParameterArgs(lists)}
    \cup
    {[fn |-> f, commandType |-> t, query |-> q, parameters |-> ps,
      identityColumnName |-> k] :
        f \in fns \cap {"executeInsert"}, t \in CommandTypes,
        q \in queries, ps \in ParameterArgs(lists), k \in IdentityColumns}
    \cup
    {[fn |-> f, commandType |-> "", query |-> q, parameters |-> ps,
      identityColumnName |-> ""] :
        f \in fns \cap {"executeWithReturnValue"},
        q \in queries, ps \in ParameterArgs(lists)}

\* rows of a record set: any subset of the fields, any values
Fields == {"value", "Id"}

RowValues == Values \cup {Null}

Rows == UNION {[fs -> RowValues] : fs \in SUBSET Fields}

LaterRow == [value |-> "7", Id |-> "7"]

\* result.recordset: undefined (<<>>), or a list of rows
Recordsets ==
    {<<>>, << <<>> >>} \cup {<< <<r>> >> : r \in Rows}
    \cup {<< <<r, LaterRow>> >> : r \in Rows}

Results == [recordset : Recordsets, returnValue : {Undefined, "0", "7"}]

OneRowResult ==
    [recordset |-> << <<[value |-> "7", Id |-> "7"]>> >>, returnValue |-> "0"]

----------------------------------------------------------------------------
(* Specifications *)

\* the driver settling the shared connect, and the handlers chained on it
Connects ==
    \/ \E p \in PoolIds : ConnectResolves(p)
    \/ \E p \in PoolIds : ThenHandler(p)

Fails(cs, errors) ==
    \/ \E p \in PoolIds, e \in errors : ConnectRejects(p, e)
    \/ \E p \in PoolIds : CatchHandler(p)
    \/ \E c \in cs : PoolFailed(c)

\* the calls resuming from their awaits
Resume(cs, results) ==
    \/ \E c \in cs : PoolAcquired(c)
    \/ \E c \in cs, r \in results : ExecReturns(c, r)
    \/ \E c \in cs, e \in RequestErrors : ExecThrows(c, e)

\* getConnection calls
Private(cs, errors) ==
    \/ \E c \in cs : GetConnection(c)
    \/ \E c \in cs : ConnectionReturns(c)
    \/ \E c \in cs, e \in errors : ConnectionThrows(c, e)

\* the environment that holds ConfigA's four values
EnvA ==
    [db_user |-> "sa", db_password |-> "pw", server |-> "db1",
     database |-> "app"]

\* an environment in which `server` is not set
EnvB == [db_user |-> "sa", db_password |-> "pw", database |-> "app"]

\* the pool's life cycle under concurrent callers
LifecycleOps == OpsOf({"executeQuery", "executeWithReturnValue"},
                      {<<"usp_Add">>}, {})

LifecycleErrors == {[name |-> "ConnectionError", code |-> "ESOCKET"]}

Next ==
    \/ \E cfg \in {ConfigA} : Initialize(cfg)
    \/ \E env \in {EnvA} : InitializeFromEnv(env)
    \/ \E c \in Callers, o \in LifecycleOps : Call(c, o)
    \/ Connects
    \/ Fails(Callers, LifecycleErrors)
    \/ Resume(Callers, {OneRowResult})

Spec == Init /\ [][Next]_vars

\* what can happen around a pool that connects: statements that fail,
\* configurations set again, private connections
NextReady ==
    \/ \E cfg \in {ConfigA, ConfigB} : Initialize(cfg)
    \/ \E env \in {EnvB} : InitializeFromEnv(env)
    \/ \E c \in Callers, o \in LifecycleOps : Call(c, o)
    \/ Connects
    \/ Resume(Callers, {OneRowResult})
    \/ Private(Callers, LifecycleErrors)

SpecReady == Init /\ [][NextReady]_vars

\* one caller, every parameter list: what is bound and how the command is sent
OneCaller == {c \in Callers : \A d \in Callers : c <= d}

BindOps == OpsOf({"executeQuery", "executeWithReturnValue"},
                 {<<"usp_Add">>}, ParamLists)

BindResults == [recordset : {<<>>}, returnValue : {Undefined, "0", "7"}]

NextBind ==
    \/ \E cfg \in {ConfigB} : Initialize(cfg)
    \/ \E c \in OneCaller, o \in BindOps : Call(c, o)
    \/ Connects
    \/ Resume(OneCaller, BindResults)

SpecBind == Init /\ [][NextBind]_vars

\* one caller, every result: what the shapers project
ShapeOps == OpsOf({"executeScalar", "executeInsert"}, Queries, {})

NextShape ==
    \/ \E cfg \in {ConfigB} : Initialize(cfg)
    \/ \E c \in OneCaller, o \in ShapeOps : Call(c, o)
    \/ Connects
    \/ Fails(OneCaller, LifecycleErrors)
    \/ Resume(OneCaller, Results)

SpecShape == Init /\ [][NextShape]_vars

----------------------------------------------------------------------------
(* Properties of the pool's life cycle *)

Pending == {"connecting", "connected", "rejected"}

Live == {p \in PoolIds : pools[p].state \in Pending \cup {"ready"}}

NoFailureYet == \A p \in PoolIds : pools[p].state \notin {"rejected", "failed"}

InPooledCall(c) == op[c].fn \in PooledFns /\ pc[c] \in {"awaitPool", "awaitExec"}

HoldsPool(c) == op[c].fn \in PooledFns /\ req[c].state # "none"

\* C1: callers that ask for the pool while none exists are coalesced: as long
\* as no attempt has failed, at most one connect has been started however many
\* callers have called, every caller in a call awaits that one attempt, and
\* every caller that has received a pool has received the pool of that attempt.
C1_OneSharedAttempt ==
    /\ NoFailureYet =>
          /\ Cardinality(Constructed) <= 1
          /\ \A c \in Callers :
                InPooledCall(c) =>
                   /\ Constructed = {awaited[c]}
                   /\ poolPromise = awaited[c]
    /\ \A c \in Callers : HoldsPool(c) => req[c].pool = awaited[c]
    /\ \A c, d \in Callers :
          (HoldsPool(c) /\ HoldsPool(d)) => req[c].pool = req[d].pool

\* every caller is past its await on the one attempt, and holds its pool
C1_Witness ==
    /\ NoFailureYet
    /\ Cardinality(Constructed) = 1
    /\ \A c \in Callers : pc[c] = "awaitExec" /\ req[c].pool = poolPromise
    /\ \E c \in Callers : callConnects[c] = 0

\* C2: the handler of a failed attempt clears the cached promise, and a getPool
\* call made once it is cleared starts a connect on a pool that was never
\* used before and caches that one; a caller past its await then holds a
\* connected pool, never a failed one.
C2_FreshAttemptAfterFailure ==
    /\ [](\A p \in PoolIds : pools[p].state = "failed" => poolPromise # p)
    /\ [](\A c \in Callers : pc[c] = "awaitExec" =>
              pools[req[c].pool].state = "ready")
    /\ [][\A c \in Callers :
            (/\ \E p \in PoolIds : pools[p].state = "failed"
             /\ poolPromise = 0
             /\ pc[c] = "idle"
             /\ pc'[c] = "awaitPool")
            => /\ pools[awaited'[c]].state = "unused"
               /\ pools'[awaited'[c]].state = "connecting"
               /\ poolPromise' = awaited'[c]
               /\ callConnects'[c] = 1]_vars

\* the first attempt failed, the second connected and a caller holds its pool
C2_Witness ==
    \E p, q \in PoolIds, c \in Callers :
        /\ pools[p].state = "failed"
        /\ pools[q].state = "ready"
        /\ pc[c] = "awaitExec"
        /\ req[c].pool = q
        /\ callConnects[c] = 1

PoolReady == poolPromise # 0 /\ pools[poolPromise].state = "ready"

\* C3: once the shared promise has resolved, no step of any call, handler,
\* initialize or getConnection changes the cached promise or any shared pool,
\* and every caller past its await holds that pool.
C3_ReadyStaysReady ==
    /\ [](PoolReady =>
            \A c \in Callers : pc[c] = "awaitExec" => req[c].pool = poolPromise)
    /\ [][PoolReady => (PoolReady' /\ poolPromise' = poolPromise /\ pools' = pools)]_vars

\* the pool is connected, the configuration has been set again to another
\* value, a private connection has been returned, and a call made by a caller
\* that did not start the connect holds the same pool
C3_Witness ==
    /\ PoolReady
    /\ pools[poolPromise].config # config
    /\ \E c, d \in Callers :
          /\ ret[c].status = "ok" /\ ret[c].pool = PrivatePool(c)
          /\ pc[d] = "awaitExec" /\ callConnects[d] = 0
          /\ req[d].pool = poolPromise

\* the call awaited a shared attempt that was made with a configuration
Configured(c) == awaited[c] \in PoolIds /\ pools[awaited[c]].config # <<>>

ConnectFailure(c) ==
    /\ op[c].fn \in PooledFns
    /\ ret[c].status = "err"
    /\ ret[c].error.name = "ConnectionError"
    /\ req[c].state = "none"

\* C4 as stated: a failed shared attempt fails only the caller whose getPool
\* call started it.
C4_OnlyStarterFails ==
    \A c \in Callers :
        (ConnectFailure(c) /\ Configured(c)) => callConnects[c] = 1

\* C4 as amended: a failed shared attempt fails exactly the callers that await
\* it: a call that ends with a connect failure awaited an attempt that failed,
\* carries that attempt's error and never held a pool, and a caller that holds
\* a pool holds a connected one.
C4_WaitersOfTheAttemptFail ==
    /\ \A c \in Callers :
          ConnectFailure(c) =>
             /\ awaited[c] \in PoolIds
             /\ pools[awaited[c]].state = "failed"
             /\ ret[c].error = pools[awaited[c]].thrown
    /\ \A c \in Callers :
          (op[c].fn \in PooledFns /\ pc[c] = "idle" /\ awaited[c] \in PoolIds
           /\ pools[awaited[c]].state = "failed")
          => ConnectFailure(c)
    /\ \A c \in Callers :
          HoldsPool(c) => pools[req[c].pool].state = "ready"

\* two callers of the same attempt both received its failure
C4_Witness ==
    \E c, d \in Callers :
        /\ c # d
        /\ ConnectFailure(c) /\ ConnectFailure(d)
        /\ awaited[c] = awaited[d]
        /\ Configured(c)
        /\ callConnects[c] = 1
        /\ callConnects[d] = 0

\* console.error records written for the failure the call ended with
Logged(c) ==
    Len(SelectSeq(callLog[c], LAMBDA r : r.err = ret[c].error))
    + (IF awaited[c] \in PoolIds
       THEN Len(SelectSeq(pools[awaited[c]].log, LAMBDA r : r.err = ret[c].error))
       ELSE 0)

\* the error the driver raised for the call
Raised(c) ==
    IF req[c].state = "rejected" THEN req[c].error
    ELSE IF awaited[c] \in PoolIds THEN pools[awaited[c]].thrown
    ELSE TypeError

\* C5 as stated: a failure seen by executeQuery or executeWithReturnValue
\* (here: by a call made once the class is configured) is logged exactly once,
\* after at most one connect and one statement, and reaches the caller as the
\* error the driver raised.
C5_LoggedOnceNoRetryUnchanged ==
    \A c \in Callers :
        (op[c].fn \in PooledFns /\ ret[c].status = "err" /\ Configured(c)) =>
           /\ Logged(c) = 1
           /\ callConnects[c] <= 1
           /\ callExecs[c] <= 1
           /\ ret[c].error = Raised(c)

\* C6 as stated: while nothing is configured, a pool-acquiring call fails with
\* a ConfigurationError, no connect is started and no promise is cached.
C6_ConfigurationError ==
    config = <<>> =>
       /\ poolPromise = 0
       /\ Constructed = {}
       /\ \A c \in Callers :
             op[c].fn \in PooledFns =>
                (ret[c].status = "err" /\ ret[c].error.name = "ConfigurationError")

\* C10: at most one shared attempt is pending or connected at a time, and it
\* is the cached one; so the handler of a rejected attempt, when it runs,
\* clears its own attempt, and at most one shared pool ever connects.
C10_OneLiveAttempt ==
    /\ Cardinality(Live) <= 1
    /\ \A p \in Live : poolPromise = p
    /\ poolPromise # 0 => poolPromise \in Live
    /\ Cardinality({p \in PoolIds : pools[p].state \in {"connected", "ready"}}) <= 1

\* a caller still awaits a failed attempt while a newer attempt is cached
C10_Witness ==
    \E p, q \in PoolIds, c \in Callers :
        /\ pools[p].state = "failed"
        /\ pc[c] = "awaitPool" /\ awaited[c] = p
        /\ pools[q].state \in {"rejected", "ready"}
        /\ poolPromise = q

----------------------------------------------------------------------------
(* Properties of the shapers and of parameter binding *)

Numbers == {"0", "7"}

HasRows(result) == result.recordset # <<>> /\ Len(result.recordset[1]) > 0

\* C7 as stated: executeScalar returns null when the first record set has no
\* rows, and the `value` field of the first row, whatever it is, when the row
\* has one.
C7_ScalarReturnsTheValue ==
    \A c \in Callers :
        (op[c].fn = "executeScalar" /\ ret[c].status = "ok") =>
           LET result == req[c].result IN
           /\ (result.recordset # <<>> /\ ~HasRows(result)) => ret[c].value = Null
           /\ (HasRows(result) /\ "value" \in DOMAIN result.recordset[1][1])
                 => ret[c].value = result.recordset[1][1].value

\* occurrences of the identity-fetch clause in a query text
Clauses(query) == Cardinality({i \in 1..Len(query) : query[i] = IdentityClause})

\* C8: executeInsert sends a Text query with the identity clause for the
\* identity column appended exactly once, and a StoredProcedure query as
\* given; it returns the number in the identity column of the first row, and
\* 0 when there is no record set, no row, or no such field.
C8_InsertIdentity ==
    \A c \in Callers :
        (op[c].fn = "executeInsert" /\ req[c].state # "none") =>
           LET o == op[c]
               result == req[c].result
               k == o.identityColumnName
           IN
           /\ o.commandType = "Text" =>
                 /\ req[c].command = o.query \o <<IdentityClause, k>>
                 /\ Clauses(req[c].command) = Clauses(o.query) + 1
                 /\ req[c].method = "query"
           /\ o.commandType = "StoredProcedure" =>
                 /\ req[c].command = o.query
                 /\ req[c].method = "execute"
           /\ ret[c].status = "ok" =>
                 IF HasRows(result) /\ k \in DOMAIN result.recordset[1][1]
                 THEN result.recordset[1][1][k] \in Numbers
                         => ret[c].value = result.recordset[1][1][k]
                 ELSE ret[c].value = "0"

\* a Text insert whose query already held an identity clause returned the
\* identity of the first row
C8_Witness ==
    \E c \in Callers :
        /\ op[c].fn = "executeInsert"
        /\ op[c].commandType = "Text"
        /\ Clauses(op[c].query) = 1
        /\ ret[c].status = "ok"
        /\ ret[c].value = "7"
        /\ Len(req[c].result.recordset[1]) = 2

\* the list a call was given: an absent list binds nothing
Given(o) == IF o.parameters = <<>> THEN <<>> ELSE o.parameters[1]

\* a name without one leading @
Unmarked(name) ==
    IF name[1] = "@" THEN [i \in 1..(Len(name) - 1) |-> name[i + 1]] ELSE name

SameArguments(input, param) ==
    /\ input.value = param.value
    /\ input.type = param.type
    /\ input.arity = IF param.type = Undefined THEN 2 ELSE 3

\* C9: executeWithReturnValue sends the query with request.execute, binds
\* each parameter in order under its name less one leading @, and returns the
\* return code, or 0 when there is none; executeQuery binds each parameter
\* under its name as given.
C9_ReturnValueBinding ==
    \A c \in Callers :
        /\ (op[c].fn = "executeWithReturnValue" /\ req[c].state # "none") =>
              /\ req[c].method = "execute"
              /\ req[c].command = op[c].query
              /\ Len(req[c].inputs) = Len(Given(op[c]))
              /\ \A i \in 1..Len(Given(op[c])) :
                    /\ req[c].inputs[i].name = Unmarked(Given(op[c])[i].name)
                    /\ SameArguments(req[c].inputs[i], Given(op[c])[i])
              /\ ret[c].status = "ok" =>
                    ret[c].value = IF req[c].result.returnValue = Undefined
                                   THEN "0" ELSE req[c].result.returnValue
        /\ (op[c].fn = "executeQuery" /\ req[c].state # "none") =>
              /\ Len(req[c].inputs) = Len(Given(op[c]))
              /\ \A i \in 1..Len(Given(op[c])) :
                    /\ req[c].inputs[i].name = Given(op[c])[i].name
                    /\ SameArguments(req[c].inputs[i], Given(op[c])[i])

\* a procedure that set no return code was called with a marked and an
\* unmarked name
C9_Witness ==
    \E c \in Callers :
        /\ op[c].fn = "executeWithReturnValue"
        /\ Len(req[c].inputs) = 2
        /\ Given(op[c])[1].name = <<"@", "@", "p">>
        /\ req[c].inputs[1].name = <<"@", "p">>
        /\ Given(op[c])[2].name = <<"p">>
        /\ req[c].result.returnValue = Undefined
        /\ ret[c].status = "ok"
        /\ ret[c].value = "0"

====
